---- MODULE Spec2Model ----
(***************************************************************************)
(* mycp437generator (src/src/main.rs): a TrueType font is turned into a    *)
(* 16x16 atlas of CP437 glyph cells.  main() searches a point size whose   *)
(* widest glyph reaches the requested cell width, renders the 256 glyphs,  *)
(* blits them into the atlas and hands the atlas to dump_surface_as_hex    *)
(* or to the PNG codec.                                                    *)
(*                                                                         *)
(* The font backend (SDL3_ttf) and the imaging backend (SDL3) are the      *)
(* environment: what they answer is an input, drawn from bounded sets.     *)
(*                                                                         *)
(* u32 values do not fit TLC's integers, so a u32 is held as two 16-bit    *)
(* limbs <<hi, lo>> (value hi * 2^16 + lo) and the u32 arithmetic of the   *)
(* source is done on the limbs, wrap-around and overflow included.  An i32 *)
(* is an integer; its sums, differences and products are computed without  *)
(* leaving the i32 range, with the wrapped result and an overflow flag.    *)
(* An overflow panics in a build with overflow checks and wraps in a build *)
(* without them; which build runs is part of the state.                    *)
(***************************************************************************)
EXTENDS Integers, Sequences, FiniteSets, TLC

VARIABLES
    overflow_checks, \* whether the build panics on integer overflow (a debug
                 \* build) or wraps (a release build)
    pc,          \* position of main(): "start", "solve", "final", "render",
                 \* "atlas", "compose", "emit", "exit"
    exit,        \* how main() ended: "none" while it runs, "ok", "panic", or
                 \* the error it returned (one of the Err* names)
    args,        \* Args: [font_width, output, hex_dump]
    font,        \* the font file as the backend sees it (the metrics oracle)
    sdl,         \* which calls of the imaging backend fail in this run
    iteration,   \* loop variable of the size search (0 before the first trial)
    font_size,   \* font_size of main(), an integer point size
    max_width,   \* max_width of main(), a u32
    loads,       \* number of load_font calls made so far
    font_height, \* font_height of main() (height of the full-set render)
    rendered,    \* the Vec `rendered`: per byte value the glyph surface or None
    atlas,       \* the atlas surface, NoSurface before Surface::new
    idx,         \* number of entries of `rendered` the second pass has handled
    placed,      \* what the second pass did with its latest entry: NoGlyph,
                 \* [kind "skip", i] or [kind "blit", i, x, y, w, h, gw, gh,
                 \* x_offset, y_offset, warned] with dst_rect (x, y, w, h)
    hex_out,     \* what dump_surface_as_hex printed, NoOutput if never called
    png_out      \* what atlas.save wrote, NoOutput if never called

vars == <<overflow_checks, pc, exit, args, font, sdl, iteration, font_size, max_width, loads,
          font_height, rendered, atlas, idx, placed, hex_out, png_out>>

\* ------------------------------------------------------------------ bounds

MaxTargetWidth == 2     \* --font-width is drawn from 1..MaxTargetWidth
MaxFontHeight == 2      \* the full-set render is 0..MaxFontHeight pixels tall
MaxMul == 2             \* glyph widths grow by 1..MaxMul pixels per point
MaxCap == 2             \* glyph widths of a font stop growing at 1..MaxCap
MaxPackWidth == 34      \* packer inputs are 0..MaxPackWidth pixels wide
MaxPackHeight == 2      \* packer inputs are 0..MaxPackHeight pixels tall
TopWidths == 34         \* the widths 2^31 - TopWidths .. 2^31 - 1 are padded
MaxStep == 3            \* packer inputs: colour patterns 0..MaxStep

\* ------------------------------------------------------- program constants

GridSize == 16          \* the atlas is GridSize x GridSize cells
NumGlyphs == 256        \* byte values 0..=u8::MAX
LastIteration == 127    \* for iteration in 1..128
WordBits == 32          \* bits per packed word
Threshold == 128        \* brightness < 128 is ink

\* --------------------------------------------------------------- u32 limbs

Half == 256 * 256

Min(a, b) == IF a <= b THEN a ELSE b
Max(a, b) == IF a >= b THEN a ELSE b

\* the u32 whose value is the natural number n (0 <= n < 2^31)
U32Of(n) == <<n \div Half, n % Half>>

\* the value of a u32 below 2^31 as a number
U32ToInt(u) == u[1] * Half + u[2]

FitsI32(u) == u[1] < Half \div 2

\* `x as u32` for an i32 x: the same 32 bits
AsU32(x) ==
    IF x >= 0 THEN U32Of(x)
    ELSE LET y == (x + 2147483647) + 1      \* x + 2^31, in 0..2^31-1
         IN  <<(y \div Half) + Half \div 2, y % Half>>

\* a >= b on u32
UGe(a, b) == a[1] > b[1] \/ (a[1] = b[1] /\ a[2] >= b[2])

\* u32::max
UMax(a, b) == IF UGe(a, b) THEN a ELSE b

\* a + n on u32 (0 <= n < 2^16): the wrapped sum and whether it overflowed
UAdd(a, n) ==
    LET lo == a[2] + n
        hi == a[1] + lo \div Half
    IN  [val |-> <<hi % Half, lo % Half>>, ovf |-> hi >= Half]

\* a * k on u32 (0 <= k < 2^15): the wrapped product and whether it overflowed
UMul(a, k) ==
    LET lo == a[2] * k
        hi == a[1] * k + lo \div Half
    IN  [val |-> <<hi % Half, lo % Half>>, ovf |-> hi >= Half]

\* a / k on u32 (0 < k < 2^15)
UDiv(a, k) ==
    LET hiq == a[1] \div k
        rest == (a[1] % k) * Half + a[2]
    IN  <<hiq, rest \div k>>

\* a % k on u32 (0 < k < 2^15)
UMod(a, k) == ((a[1] % k) * Half + a[2]) % k

\* i32::MAX and i32::MIN
MaxI32 == (Half \div 2 - 1) * Half + (Half - 1)
MinI32 == -MaxI32 - 1

\* `u as i32` for a u32 u: the same 32 bits
AsI32(u) ==
    IF FitsI32(u) THEN U32ToInt(u)
    ELSE ((u[1] - Half \div 2) * Half + u[2] - MaxI32) - 1

\* a + b on i32: the wrapped sum and whether it overflowed
IAdd(a, b) ==
    IF a >= 0 /\ b >= 0 /\ a > MaxI32 - b
    THEN [val |-> ((a - MaxI32) - 1) + ((b - MaxI32) - 1), ovf |-> TRUE]
    ELSE IF a < 0 /\ b < 0 /\ a < MinI32 - b
    THEN [val |-> ((a + MaxI32) + 1) + ((b + MaxI32) + 1), ovf |-> TRUE]
    ELSE [val |-> a + b, ovf |-> FALSE]

\* a - b on i32: the wrapped difference and whether it overflowed
ISub(a, b) ==
    IF a >= 0 /\ b < 0 /\ a > MaxI32 + b
    THEN [val |-> ((a - MaxI32) - 1) - ((b + MaxI32) + 1), ovf |-> TRUE]
    ELSE IF a < 0 /\ b >= 0 /\ a < MinI32 + b
    THEN [val |-> ((a + MaxI32) + 1) - ((b - MaxI32) - 1), ovf |-> TRUE]
    ELSE [val |-> a - b, ovf |-> FALSE]

\* k * x on i32 (0 <= k < 2^15): the wrapped product and whether it overflowed
IMul(k, x) ==
    [val |-> AsI32(UMul(AsU32(x), k).val),
     ovf |-> k > 0 /\ (IF x >= 0 THEN x > MaxI32 \div k
                       ELSE -(x + 1) > (MaxI32 - (k - 1)) \div k)]

\* n / 2 on i32 (Rust rounds towards zero)
Half2(n) == IF n >= 0 THEN n \div 2 ELSE (n + 1) \div 2

Pow2(n) == 2 ^ n

\* bit i (0..31) of the u32 v
TestBit(v, i) ==
    IF i < 16 THEN (v[2] \div Pow2(i)) % 2 = 1
    ELSE (v[1] \div Pow2(i - 16)) % 2 = 1

\* mutant of OrBit: the bits are numbered from the top of the word
OrBitFromTop(v, i) ==
    IF 31 - i < 16 THEN <<v[1], v[2] + Pow2(31 - i)>>
    ELSE <<v[1] + Pow2(15 - i), v[2]>>

\* v | (1 << i)
OrBit(v, i) ==
    IF TestBit(v, i) THEN v
    ELSE IF i < 16 THEN <<v[1], v[2] + Pow2(i)>>
    ELSE <<v[1] + Pow2(i - 16), v[2]>>

\* ---------------------------------------------------------------- surfaces

NoSurface == [kind |-> "none"]
NoOutput == [kind |-> "none"]

White == <<255, 255, 255>>
Black == <<0, 0, 0>>

BytesPerPixel == 3      \* PixelFormat::RGB24

\* SDL's row stride of a surface: the row's bytes, rounded up to 4
Pitch(width) == ((width * BytesPerPixel + 3) \div 4) * 4

\* Surface::new followed by fill_rect(None, colour): width and height are u32,
\* px holds the pixels written since, (x, y) -> <<r, g, b>>
NewSurface(width, height, colour) ==
    [kind |-> "surface", width |-> width, height |-> height,
     fill |-> colour, px |-> [p \in {} |-> colour]]

PixelAt(s, x, y) ==
    IF <<x, y>> \in DOMAIN s.px THEN s.px[<<x, y>>] ELSE s.fill

\* pixels.len() of with_lock: pitch * height bytes
PixelsLen(s) == Pitch(U32ToInt(s.width)) * U32ToInt(s.height)

\* pixels[off]: the byte at offset off of the locked pixel buffer
PixelByte(s, off) ==
    LET pitch == Pitch(U32ToInt(s.width))
        y == off \div pitch
        x == (off % pitch) \div BytesPerPixel
        c == (off % pitch) % BytesPerPixel
    IN  IF x < U32ToInt(s.width) THEN PixelAt(s, x, y)[c + 1] ELSE 0

\* ------------------------------------------------------ dump_surface_as_hex

\* mutant of PaddedWidth: (width / 32 + 1) * 32, one word too many for a width
\* that is a multiple of 32
PaddedWidthNext(width) ==
    LET sum == UAdd(width, WordBits)
        prod == UMul(UDiv(sum.val, WordBits), WordBits)
    IN  [val |-> prod.val, ovf |-> sum.ovf \/ prod.ovf]

\* ((width + 31) / 32) * 32 on u32: [val, ovf], ovf when the sum overflowed
PaddedWidth(width) ==
    LET sum == UAdd(width, WordBits - 1)
        prod == UMul(UDiv(sum.val, WordBits), WordBits)
    IN  [val |-> prod.val, ovf |-> sum.ovf \/ prod.ovf]

\* is_filled of pixel (x, y)
IsFilled(s, x, y) ==
    LET pixel_offset == y * Pitch(U32ToInt(s.width)) + x * BytesPerPixel
    IN  IF pixel_offset + 2 < PixelsLen(s)
        THEN LET r == PixelByte(s, pixel_offset)
                 g == PixelByte(s, pixel_offset + 1)
                 b == PixelByte(s, pixel_offset + 2)
                 brightness == (r + g + b) \div 3
             IN  brightness < Threshold
        ELSE FALSE

\* the Vec `bits` of scanline y: one bool per pixel, then false up to
\* padded_width (nothing is appended when padded_width <= width)
ScanlineBits(s, y, padded_width) ==
    LET width == U32ToInt(s.width)
    IN  [k \in 1..Max(width, padded_width) |->
            IF k <= width THEN IsFilled(s, k - 1, y) ELSE FALSE]

\* value of one chunk after its bits i, i+1, ... were or-ed into value: bit i
\* of the word is chunk[i] (i from 0).  (The test of v makes the evaluation
\* finish one bit before it starts the next, which bounds its nesting.)
RECURSIVE PackChunk(_, _, _)
PackChunk(chunk, i, value) ==
    IF i >= Len(chunk) THEN value
    ELSE LET v == IF chunk[i + 1] THEN OrBit(value, i) ELSE value
         IN  IF UGe(v, value) THEN PackChunk(chunk, i + 1, v) ELSE v

\* bits.chunks(32), each packed into a u32
PackLine(bits) ==
    LET n == (Len(bits) + WordBits - 1) \div WordBits
    IN  [c \in 1..n |->
            PackChunk(SubSeq(bits, WordBits * (c - 1) + 1,
                             Min(WordBits * c, Len(bits))), 0, <<0, 0>>)]

\* all_values after scanlines y, y+1, ... height-1 were appended to acc (the
\* test of `next` makes the evaluation finish one scanline before it starts
\* the next, which bounds its nesting)
RECURSIVE AllValues(_, _, _, _)
AllValues(s, y, padded_width, acc) ==
    IF y >= U32ToInt(s.height) THEN acc
    ELSE LET next == acc \o PackLine(ScanlineBits(s, y, padded_width))
         IN  IF Len(next) >= Len(acc)
             THEN AllValues(s, y + 1, padded_width, next)
             ELSE next

\* what dump_surface_as_hex prints for surface s when padded_width is padded
HexDump(s, char_width, char_height, padded) ==
    [kind |-> "hex", width |-> s.width, height |-> s.height,
     padded_width |-> padded, char_width |-> char_width,
     char_height |-> char_height,
     words |-> IF U32ToInt(s.height) = 0 THEN << >>
               ELSE AllValues(s, 0, U32ToInt(padded), << >>)]

\* ------------------------------------------------------- the font backend

(***************************************************************************)
(* A font is what the backend answers for it:                              *)
(*   mul, cap     an ordinary glyph is Min(mul * size, cap) pixels wide    *)
(*   present      "all", "ascii" (code points below 128) or "none": the    *)
(*                characters the font has a glyph for                      *)
(*   neg, negval  glyph NegGlyph has maxx = negval (negative, or huge)     *)
(*   line_height  height of a rendered line, at every size                 *)
(*   fail_at      the fail_at-th load_font call fails (0: none does)       *)
(*   render_ok    whether rendering the 256-character string succeeds      *)
(*   a_kind       glyph GlyphA: "ok", "norender" (rendering it fails),     *)
(*                "zerox" (minx = maxx) or "zeroy" (miny = maxy)           *)
(*   b_dw, b_dh   the glyphs next to GlyphA (GlyphsB) render b_dw pixels   *)
(*                wider and b_dh pixels taller than an ordinary glyph      *)
(*   b_low        whether miny + descent <= 1 for the glyphs GlyphsB       *)
(*   deep         the glyphs GlyphsB have miny = i32::MIN                  *)
(***************************************************************************)

NoGlyph == [kind |-> "none"]
NoMetrics == [kind |-> "none"]

NegGlyph == 1
GlyphA == 2 * GridSize + 4
GlyphsB == {GlyphA - 1, GlyphA + GridSize, GlyphA - GridSize}

\* The CP437 table of get_cp437_char, byte value 0 first: a character is its
\* Unicode code point.  The byte values 0, 32 and 255 all give the space
\* character U+0020.
Cp437Table ==
    <<
       32, 9786, 9787, 9829, 9830, 9827, 9824, 8226,
       9688, 9675, 9689, 9794, 9792, 9834, 9835, 9788,
       9658, 9668, 8597, 8252, 182, 167, 9644, 8616,
       8593, 8595, 8594, 8592, 8735, 8596, 9650, 9660,
       32, 33, 34, 35, 36, 37, 38, 39,
       40, 41, 42, 43, 44, 45, 46, 47,
       48, 49, 50, 51, 52, 53, 54, 55,
       56, 57, 58, 59, 60, 61, 62, 63,
       64, 65, 66, 67, 68, 69, 70, 71,
       72, 73, 74, 75, 76, 77, 78, 79,
       80, 81, 82, 83, 84, 85, 86, 87,
       88, 89, 90, 91, 92, 93, 94, 95,
       96, 97, 98, 99, 100, 101, 102, 103,
       104, 105, 106, 107, 108, 109, 110, 111,
       112, 113, 114, 115, 116, 117, 118, 119,
       120, 121, 122, 123, 124, 125, 126, 8962,
       199, 252, 233, 226, 228, 224, 229, 231,
       234, 235, 232, 239, 238, 236, 196, 197,
       201, 230, 198, 244, 246, 242, 251, 249,
       255, 214, 220, 162, 163, 165, 8359, 402,
       225, 237, 243, 250, 241, 209, 170, 186,
       191, 8976, 172, 189, 188, 161, 171, 187,
       9617, 9618, 9619, 9474, 9508, 9569, 9570, 9558,
       9557, 9571, 9553, 9559, 9565, 9564, 9563, 9488,
       9492, 9524, 9516, 9500, 9472, 9532, 9566, 9567,
       9562, 9556, 9577, 9574, 9568, 9552, 9580, 9575,
       9576, 9572, 9573, 9561, 9560, 9554, 9555, 9579,
       9578, 9496, 9484, 9608, 9604, 9612, 9616, 9600,
       945, 223, 915, 960, 931, 963, 181, 964,
       934, 920, 937, 948, 8734, 966, 949, 8745,
       8801, 177, 8805, 8804, 8992, 8993, 247, 8776,
       176, 8729, 183, 8730, 8319, 178, 9632, 32
    >>

get_cp437_char(i) == Cp437Table[i + 1]

\* the characters of the glyphs NegGlyph, GlyphA and GlyphsB
NegChar == get_cp437_char(NegGlyph)
CharA == get_cp437_char(GlyphA)
CharsB == {get_cp437_char(i) : i \in GlyphsB}

\* the least maxx whose 16-fold does not fit a u32
WideMaxx == (Half \div GridSize) * Half + 1

BaseWidth(f, size) == Min(f.mul * size, f.cap)

InFont(f, ch) ==
    \/ f.present = "all"
    \/ f.present = "ascii" /\ ch < 128

\* font.descent()
Descent(f) == -1

\* font.find_glyph_metrics(ch) of the font loaded at `size`
FindGlyphMetrics(f, size, ch) ==
    IF ~InFont(f, ch) THEN NoMetrics
    ELSE LET bw == BaseWidth(f, size)
             maxx == IF f.neg /\ ch = NegChar THEN f.negval ELSE bw
             minx == IF ch = CharA /\ f.a_kind = "zerox" THEN maxx
                     ELSE maxx - bw
             miny == IF ch \in CharsB /\ f.deep THEN MinI32
                     ELSE IF ch \in CharsB /\ ~f.b_low THEN 2 - Descent(f)
                     ELSE 1 - Descent(f)
             maxy == IF ch = CharA /\ f.a_kind = "zeroy" THEN miny
                     ELSE miny + 1
         IN  [kind |-> "metrics", minx |-> minx, maxx |-> maxx,
              miny |-> miny, maxy |-> maxy]

\* font.render(ch).shaded(black, white).ok(): the glyph's surface (SDL holds
\* its width and height as C ints), black ink on white; the glyphs GlyphsB
\* are solid ink, the others have one ink pixel
RenderGlyph(f, size, ch) ==
    LET w == BaseWidth(f, size) + (IF ch \in CharsB THEN f.b_dw ELSE 0)
        h == f.line_height + (IF ch \in CharsB THEN f.b_dh ELSE 0)
    IN  IF (ch = CharA /\ f.a_kind = "norender") \/ w <= 0 \/ h <= 0
        THEN NoGlyph
        ELSE [width |-> w, height |-> h, solid |-> ch \in CharsB]

GlyphPixel(g, x, y) ==
    IF g.solid \/ (x = 0 /\ y = 0) THEN Black ELSE White

\* ------------------------------------------------------------- size search

\* max_width after the glyphs i, i+1, ... last were measured, starting from acc
RECURSIVE MeasureFrom(_, _, _, _, _)
MeasureFrom(f, size, i, last, acc) ==
    IF i > last THEN acc
    ELSE LET metrics == FindGlyphMetrics(f, size, get_cp437_char(i))
         IN  MeasureFrom(f, size, i + 1, last,
                         IF metrics = NoMetrics THEN acc
                         ELSE UMax(acc, AsU32(metrics.maxx)))

\* the same loop, GridSize glyphs at a time, the glyphs still visited in the
\* order 0, 1, ... 255 (the test of m makes the evaluation finish one stretch
\* before it starts the next, which bounds its nesting)
RECURSIVE MeasureRows(_, _, _, _)
MeasureRows(f, size, row, acc) ==
    IF row * GridSize >= NumGlyphs THEN acc
    ELSE LET m == MeasureFrom(f, size, row * GridSize,
                              Min((row + 1) * GridSize, NumGlyphs) - 1, acc)
         IN  IF UGe(m, acc) THEN MeasureRows(f, size, row + 1, m) ELSE m

\* max_width of one trial: reset to 0, then the 256 glyphs
MeasureMaxWidth(f, size) == MeasureRows(f, size, 0, <<0, 0>>)

\* mutant of WidthReached: the search goes on until the target is exceeded
WidthExceeded(mw, target) == UGe(mw, target) /\ mw # target

\* the break condition of the search: max_width >= args.font_width
WidthReached(mw, target) == UGe(mw, target)

\* ------------------------------------------------------------------ main()

ErrNoMode == "either --output or --hex-dump must be provided"
ErrInit == "sdl3 or ttf init failed"
ErrLoad == "Failed to load font"
ErrLoadFinal == "Failed to load font with adjusted size"
ErrRenderAll == "failed to render all CP437 chars in one string"
ErrZeroHeight == "all rendered glyphs have zero height"
ErrSurface == "Surface::new or fill_rect failed"
ErrBlit == "blit failed"
ErrSave == "Failed to save PNG"

Errors == {ErrNoMode, ErrInit, ErrLoad, ErrLoadFinal, ErrRenderAll,
           ErrZeroHeight, ErrSurface, ErrBlit, ErrSave}

\* main() returns: nothing more is done
Return(how) ==
    /\ pc' = "exit"
    /\ exit' = how

\* mutant of LoadFontOk: a failed load goes unnoticed
LoadFontUnchecked == TRUE

\* ttf_context.load_font: whether the next call succeeds
LoadFontOk == font.fail_at # loads + 1

\* lines 292-304: Args::parse, the output-mode check, SDL and TTF init
Start ==
    /\ pc = "start"
    /\ IF ~args.output /\ ~args.hex_dump
       THEN Return(ErrNoMode)
       ELSE IF sdl.init_ok THEN pc' = "solve" /\ exit' = exit
       ELSE Return(ErrInit)
    /\ UNCHANGED <<overflow_checks, args, font, sdl, iteration, font_size, max_width, loads,
                   font_height, rendered, atlas, idx, placed, hex_out, png_out>>

\* lines 308-338: one iteration of `for iteration in 1..128`
SolverTrial ==
    /\ pc = "solve"
    /\ iteration' = iteration + 1
    /\ font_size' = iteration'
    /\ loads' = loads + 1
    /\ IF ~LoadFontOk
       THEN /\ Return(ErrLoad)
            /\ max_width' = max_width
       ELSE /\ max_width' = MeasureMaxWidth(font, font_size')
            /\ exit' = exit
            /\ pc' = IF \/ WidthReached(max_width', U32Of(args.font_width))
                        \/ iteration' >= LastIteration
                     THEN "final" ELSE "solve"
    /\ UNCHANGED <<overflow_checks, args, font, sdl, font_height, rendered, atlas, idx, placed,
                   hex_out, png_out>>

\* lines 341-346: the final load; font_width is max_width from here on
FinalLoad ==
    /\ pc = "final"
    /\ loads' = loads + 1
    /\ IF LoadFontOk THEN pc' = "render" /\ exit' = exit
       ELSE Return(ErrLoadFinal)
    /\ UNCHANGED <<overflow_checks, args, font, sdl, iteration, font_size, max_width, font_height,
                   rendered, atlas, idx, placed, hex_out, png_out>>

\* lines 352-382: the full-set render gives font_height, then every glyph is
\* rendered into `rendered`
RenderAll ==
    /\ pc = "render"
    /\ IF ~font.render_ok
       THEN /\ Return(ErrRenderAll)
            /\ UNCHANGED <<font_height, rendered>>
       ELSE /\ font_height' = U32Of(font.line_height)
            /\ IF font_height' = <<0, 0>>
               THEN /\ Return(ErrZeroHeight)
                    /\ UNCHANGED rendered
               ELSE /\ rendered' =
                          [k \in 1..NumGlyphs |->
                              RenderGlyph(font, font_size, get_cp437_char(k - 1))]
                    /\ pc' = "atlas"
                    /\ exit' = exit
    /\ UNCHANGED <<overflow_checks, args, font, sdl, iteration, font_size, max_width, loads, atlas,
                   idx, placed, hex_out, png_out>>

\* lines 398-406: atlas_width = font_width * 16, atlas_height = font_height * 16
\* (u32 products: an overflow panics in a build with overflow checks and wraps
\* in one without), Surface::new (SDL takes C ints) and the white fill
CreateAtlas ==
    /\ pc = "atlas"
    /\ LET atlas_width == UMul(max_width, GridSize)
           atlas_height == UMul(font_height, GridSize)
       IN  IF overflow_checks /\ (atlas_width.ovf \/ atlas_height.ovf)
           THEN Return("panic") /\ UNCHANGED <<atlas, idx>>
           ELSE IF ~sdl.surface_ok \/ ~FitsI32(atlas_width.val)
                       \/ ~FitsI32(atlas_height.val)
           THEN Return(ErrSurface) /\ UNCHANGED <<atlas, idx>>
           ELSE /\ atlas' = NewSurface(atlas_width.val, atlas_height.val, White)
                /\ idx' = 0
                /\ pc' = "compose"
                /\ exit' = exit
    /\ UNCHANGED <<overflow_checks, args, font, sdl, iteration, font_size, max_width, loads,
                   font_height, rendered, placed, hex_out, png_out>>

\* char_surface.blit(None, &mut atlas, Some(dst_rect)): SDL_BlitSurface copies
\* the whole source surface to position (x0, y0) of the destination, clipped
\* to the destination surface; it reads only the position of dst_rect.  The
\* copy replaces the pixels it covers.
Blit(dst, g, x0, y0) ==
    LET covered == IF x0 >= U32ToInt(dst.width) \/ y0 >= U32ToInt(dst.height)
                   THEN {}
                   ELSE {p \in {<<x0 + x, y0 + y>> :
                                   x \in 0..(g.width - 1),
                                   y \in 0..(g.height - 1)} :
                            /\ p[1] >= 0 /\ p[1] < U32ToInt(dst.width)
                            /\ p[2] >= 0 /\ p[2] < U32ToInt(dst.height)}
        inked == {p \in covered : GlyphPixel(g, p[1] - x0, p[2] - y0) # dst.fill}
        kept == (DOMAIN dst.px) \ covered
    IN  [dst EXCEPT !.px = [p \in kept \cup inked |->
                               IF p \in inked
                               THEN GlyphPixel(g, p[1] - x0, p[2] - y0)
                               ELSE dst.px[p]]]

\* line 463: the test of the "exceed cell height" warning
ExceedsCell(y_offset, gh, fh) == IAdd(y_offset, gh).val > fh

\* u32::min
UMin(a, b) == IF UGe(a, b) THEN b ELSE a

\* lines 422-428: the cell of entry i of `rendered` and the centring
\* offset of a glyph gw pixels wide, in i32; fw and fh are font_width and
\* font_height of main(), both u32
CellOrigin(i, gw, fw, fh) ==
    LET col == i % GridSize
        row == i \div GridSize
        cell_x == IMul(col, AsI32(fw))
        cell_y == IMul(row, AsI32(fh))
        room == ISub(AsI32(fw), gw)
    IN  [cell_x |-> cell_x.val, cell_y |-> cell_y.val,
         x_offset |-> Max(Half2(room.val), 0),
         ovf |-> cell_x.ovf \/ cell_y.ovf \/ room.ovf]

\* line 455: `metrics.miny + font.descent() <= 1`, an i32 sum
BottomAligned(metrics) == IAdd(metrics.miny, Descent(font)).val <= 1

\* lines 453-480: y_offset, the warning test and the arguments of Rect::new
\* for entry i of `rendered`, all in i32; ovf tells whether one of the sums,
\* differences and products of lines 422-480 overflowed
Placement(i, char_surface, metrics, fw, fh) ==
    LET gw == char_surface.width
        gh == char_surface.height
        o == CellOrigin(i, gw, fw, fh)
        same == U32Of(gh) = fh
        low == IAdd(metrics.miny, Descent(font))
        rise == ISub(AsI32(fh), gh)
        y_offset == IF same THEN 0
                    ELSE IF BottomAligned(metrics) THEN rise.val
                    ELSE 0
        top == IAdd(y_offset, gh)
        x == IAdd(o.cell_x, o.x_offset)
        y == IAdd(o.cell_y, y_offset)
    IN  [kind |-> "blit", i |-> i,
         x |-> x.val, y |-> y.val,
         w |-> U32ToInt(UMin(U32Of(gw), fw)),
         h |-> U32ToInt(UMin(U32Of(gh), fh)),
         gw |-> gw, gh |-> gh,
         x_offset |-> o.x_offset, y_offset |-> y_offset,
         warned |-> ExceedsCell(y_offset, gh, AsI32(fh)),
         ovf |-> \/ o.ovf
                 \/ ~same /\ (low.ovf \/ (BottomAligned(metrics) /\ rise.ovf))
                 \/ top.ovf \/ x.ovf \/ y.ovf]

\* the skip test of lines 430-451: no metrics, or a zero extent
SkippedByMetrics(metrics) ==
    \/ metrics = NoMetrics
    \/ metrics.miny = metrics.maxy
    \/ metrics.minx = metrics.maxx

\* the skip tests of lines 412-451: no surface, no metrics, or a zero extent
Skipped(char_surface, metrics) ==
    \/ char_surface = NoGlyph
    \/ SkippedByMetrics(metrics)

\* the second pass goes on with the next entry of `rendered`
NextGlyph ==
    /\ idx' = idx + 1
    /\ pc' = IF idx' = NumGlyphs THEN "emit" ELSE "compose"
    /\ exit' = exit

\* lines 411-497: one iteration of the second pass.  The cell origin and the
\* centring offset (lines 422-428) are computed before the metrics are looked
\* up, so their overflow panics also for a glyph the metrics would skip.
ComposeGlyph ==
    /\ pc = "compose"
    /\ LET i == idx
           char_surface == rendered[i + 1]
           metrics == FindGlyphMetrics(font, font_size, get_cp437_char(i))
       IN  IF char_surface = NoGlyph
           THEN /\ placed' = [kind |-> "skip", i |-> i]
                /\ atlas' = atlas
                /\ NextGlyph
           ELSE IF overflow_checks
                   /\ CellOrigin(i, char_surface.width, max_width,
                                 font_height).ovf
           THEN /\ placed' = [kind |-> "panic", i |-> i]
                /\ Return("panic")
                /\ UNCHANGED <<atlas, idx>>
           ELSE IF SkippedByMetrics(metrics)
           THEN /\ placed' = [kind |-> "skip", i |-> i]
                /\ atlas' = atlas
                /\ NextGlyph
           ELSE LET pl == Placement(i, char_surface, metrics,
                                    max_width, font_height)
                IN  IF overflow_checks /\ pl.ovf
                    THEN /\ placed' = [kind |-> "panic", i |-> i]
                         /\ Return("panic")
                         /\ UNCHANGED <<atlas, idx>>
                    ELSE /\ placed' = pl
                         /\ IF sdl.blit_fail_at # i
                            THEN /\ atlas' = Blit(atlas, char_surface, pl.x, pl.y)
                                 /\ NextGlyph
                            ELSE /\ Return(ErrBlit)
                                 /\ UNCHANGED <<atlas, idx>>
    /\ UNCHANGED <<overflow_checks, args, font, sdl, iteration, font_size,
                   max_width, loads, font_height, rendered, hex_out, png_out>>

\* lines 501-503: `if let Some(name) = &args.hex_dump { .. } else if let
\* Some(path) = &args.output { .. }`
WantsHexDump == args.hex_dump
\* mutant of WantsPng: `if` in place of `else if`
WantsPngToo == args.output
WantsPng == ~args.hex_dump /\ args.output

\* lines 501-502 and 204-291: dump_surface_as_hex(&atlas, font_width,
\* font_height, name); padded_width is computed before anything is printed
EmitHexDump ==
    /\ pc = "emit"
    /\ WantsHexDump
    /\ LET padded == PaddedWidth(atlas.width)
       IN  IF overflow_checks /\ padded.ovf
           THEN Return("panic") /\ hex_out' = hex_out
           ELSE /\ hex_out' = HexDump(atlas, max_width, font_height, padded.val)
                /\ Return("ok")
    /\ UNCHANGED <<overflow_checks, args, font, sdl, iteration, font_size, max_width, loads,
                   font_height, rendered, atlas, idx, placed, png_out>>

\* lines 503-506: atlas.save(path)
SavePng ==
    /\ pc = "emit"
    /\ WantsPng
    /\ IF sdl.save_ok
       THEN /\ png_out' = [kind |-> "png", width |-> atlas.width,
                           height |-> atlas.height]
            /\ Return("ok")
       ELSE /\ png_out' = png_out
            /\ Return(ErrSave)
    /\ UNCHANGED <<overflow_checks, args, font, sdl, iteration, font_size, max_width, loads,
                   font_height, rendered, atlas, idx, placed, hex_out>>

\* ------------------------------------------------------------------ inputs

DefaultFont ==
    [mul |-> 1, cap |-> MaxCap, present |-> "all", neg |-> FALSE,
     negval |-> -1, line_height |-> 1, fail_at |-> 0, render_ok |-> TRUE,
     a_kind |-> "ok", b_dw |-> 0, b_dh |-> 0, b_low |-> TRUE, deep |-> FALSE]

\* fonts that differ in how the glyph widths grow with the size
FontsSolver ==
    {[DefaultFont EXCEPT !.mul = m, !.cap = c, !.present = p] :
        m \in 1..MaxMul, c \in 1..MaxCap, p \in {"all", "ascii", "none"}}

\* fonts with a glyph of negative maxx, or of a maxx so large that 16 cells
\* of that width do not fit a u32
FontsNeg ==
    {[DefaultFont EXCEPT !.neg = TRUE, !.present = p] : p \in {"all", "ascii"}}
    \cup {[DefaultFont EXCEPT !.neg = TRUE, !.negval = WideMaxx]}

\* fonts whose glyphs GlyphsB are lower or taller than the others and have
\* miny = i32::MIN
FontsDeep ==
    {[DefaultFont EXCEPT !.line_height = MaxFontHeight, !.b_dh = dh,
                         !.deep = TRUE] : dh \in {-1, 1}}

\* the fonts with which an integer of main() overflows
FontsOverflow == FontsNeg \cup FontsDeep

\* fonts the backend fails on: a load, the full-set render, a zero line height
FontsFatal ==
    {[DefaultFont EXCEPT !.fail_at = k] : k \in 1..(MaxTargetWidth + 1)}
    \cup {[DefaultFont EXCEPT !.render_ok = FALSE],
          [DefaultFont EXCEPT !.line_height = 0]}

\* fonts whose glyph GlyphA is skipped
FontsSkip ==
    {[DefaultFont EXCEPT !.line_height = lh, !.a_kind = k] :
        lh \in 1..MaxFontHeight, k \in {"norender", "zerox", "zeroy"}}

\* fonts whose glyphs GlyphsB are smaller or larger than the others
FontsShape ==
    {[DefaultFont EXCEPT !.line_height = lh, !.a_kind = "norender",
                         !.b_dw = dw, !.b_dh = dh, !.b_low = low] :
        lh \in {MaxFontHeight}, dw \in {-1, 0, 1}, dh \in {-1, 0, 1},
        low \in BOOLEAN}

Fonts ==
    FontsSolver \cup FontsNeg \cup FontsDeep \cup FontsFatal \cup FontsSkip
    \cup FontsShape

\* an imaging backend none of whose calls fails
SdlOk ==
    [init_ok |-> TRUE, surface_ok |-> TRUE, blit_fail_at |-> NumGlyphs,
     save_ok |-> TRUE]

\* imaging backends with one failing call: init, Surface::new or fill_rect,
\* the blit of one glyph, the PNG save
SdlFailing ==
    {[SdlOk EXCEPT !.init_ok = FALSE], [SdlOk EXCEPT !.surface_ok = FALSE],
     [SdlOk EXCEPT !.blit_fail_at = GlyphA], [SdlOk EXCEPT !.save_ok = FALSE]}

ArgsSet ==
    [font_width : 1..MaxTargetWidth, output : BOOLEAN, hex_dump : BOOLEAN]

\* Both builds are run on the fonts of FontsOverflow; on the other fonts no
\* integer overflows and the two builds do the same, so one of them is run.
Init ==
    /\ pc = "start"
    /\ exit = "none"
    /\ args \in ArgsSet
    /\ \/ font \in Fonts /\ sdl = SdlOk
       \/ font = DefaultFont /\ sdl \in SdlFailing
    /\ overflow_checks \in (IF font \in FontsOverflow THEN BOOLEAN ELSE {TRUE})
    /\ iteration = 0
    /\ font_size = 1
    /\ max_width = <<0, 0>>
    /\ loads = 0
    /\ font_height = <<0, 0>>
    /\ rendered = << >>
    /\ atlas = NoSurface
    /\ idx = 0
    /\ placed = NoGlyph
    /\ hex_out = NoOutput
    /\ png_out = NoOutput

Next ==
    \/ Start
    \/ SolverTrial
    \/ FinalLoad
    \/ RenderAll
    \/ CreateAtlas
    \/ ComposeGlyph
    \/ EmitHexDump
    \/ SavePng

Spec == Init /\ [][Next]_vars

\* ------------------------------------------- the packer on its own inputs

\* colours on both sides of the threshold, grey and not
PackColours ==
    <<White, Black, <<127, 128, 128>>, <<128, 128, 128>>, <<255, 128, 0>>,
      <<129, 128, 127>>, <<0, 0, 255>>, <<255, 255, 0>>>>

\* a surface of w x h pixels whose pixel (x, y) has colour number
\* (x * step + y) of PackColours, counted cyclically
PackSurface(w, h, step) ==
    [NewSurface(U32Of(w), U32Of(h), White) EXCEPT
        !.px = [p \in (0..(w - 1)) \X (0..(h - 1)) |->
                   PackColours[((p[1] * step + p[2]) % Len(PackColours)) + 1]]]

\* the atlas of one blank 32 x 32 glyph cell
BlankAtlas == NewSurface(U32Of(WordBits), U32Of(WordBits), White)

PackInputs ==
    {PackSurface(w, h, step) :
        w \in 0..MaxPackWidth, h \in 0..MaxPackHeight, step \in 0..MaxStep}
    \cup {BlankAtlas}

\* dump_surface_as_hex is about to be called on any of PackInputs
InitPack ==
    /\ overflow_checks \in BOOLEAN
    /\ pc = "emit"
    /\ exit = "none"
    /\ args = [font_width |-> 1, output |-> FALSE, hex_dump |-> TRUE]
    /\ font = DefaultFont
    /\ sdl = SdlOk
    /\ iteration = 1
    /\ font_size = 1
    /\ max_width = <<0, 1>>
    /\ loads = 2
    /\ font_height = <<0, 1>>
    /\ rendered = << >>
    /\ atlas \in PackInputs
    /\ idx = NumGlyphs
    /\ placed = NoGlyph
    /\ hex_out = NoOutput
    /\ png_out = NoOutput

SpecPack == InitPack /\ [][EmitHexDump]_vars

\* ------------------------------------------------------------------ claims

TargetWidth == U32Of(args.font_width)

\* C1: the size search tries the sizes 1, 2, ... in order, at most 127 of
\* them, one load_font per trial; when it ends, the accepted size is the first
\* one whose measured max_width is >= the target (no smaller size reached it),
\* or 127 if none did, and max_width is the value measured at that size.
C1_FirstSizeReachingWidth ==
    /\ iteration <= LastIteration
    /\ font_size = Max(iteration, 1)
    /\ pc \in {"solve", "final"} => loads = iteration
    /\ pc = "final" =>
          /\ font_size \in 1..LastIteration
          /\ max_width = MeasureMaxWidth(font, font_size)
          /\ \A k \in 1..(font_size - 1) :
                ~UGe(MeasureMaxWidth(font, k), TargetWidth)
          /\ UGe(max_width, TargetWidth) \/ font_size = LastIteration

\* C1 witness: the search ended at a size above 1 that reached the target
C1_Witness ==
    /\ pc = "final"
    /\ font_size > 1
    /\ font_size < LastIteration
    /\ UGe(max_width, TargetWidth)

\* C2 (as claimed): once the search stopped at a trial with max_width >= W,
\* the atlas is 16 * W pixels wide and the packer is handed W as cell width.
C2_AtlasWidthIsTarget ==
    UGe(max_width, TargetWidth) =>
        /\ atlas # NoSurface =>
              atlas.width = U32Of(GridSize * args.font_width)
        /\ hex_out # NoOutput => hex_out.char_width = TargetWidth

\* brightness of pixel (x, y) of surface s, from its colour
Brightness(s, x, y) ==
    (PixelAt(s, x, y)[1] + PixelAt(s, x, y)[2] + PixelAt(s, x, y)[3]) \div 3

\* C3: the dump of a w x h surface holds h * (padded_width / 32) words;
\* bit x % 32 of word (y * padded_width + x) / 32 is 1 exactly for the pixels
\* (x, y), x < w, of brightness below 128, and 0 at the padding positions
\* w..padded_width-1; one blank 32 x 32 cell gives 32 words, all zero.
C3_PackedLayout ==
    hex_out # NoOutput =>
        LET h == U32ToInt(atlas.height)
            words == hex_out.words
        IN  IF h = 0 THEN words = << >>
            ELSE LET w == U32ToInt(atlas.width)
                     pw == U32ToInt(hex_out.padded_width)
                 IN  /\ Len(words) = h * (pw \div WordBits)
                     /\ \A y \in 0..(h - 1), x \in 0..(pw - 1) :
                           TestBit(words[((y * pw + x) \div WordBits) + 1],
                                   x % WordBits)
                           <=> (x < w /\ Brightness(atlas, x, y) < Threshold)
                     /\ atlas = BlankAtlas =>
                           words = [k \in 1..WordBits |-> <<0, 0>>]

\* C3 witness: a dump of two scanlines of two words each, with ink in both
\* words of the first scanline
C3_Witness ==
    /\ hex_out # NoOutput
    /\ Len(hex_out.words) = 4
    /\ hex_out.words[1] # <<0, 0>>
    /\ hex_out.words[2] # <<0, 0>>

\* padded is a multiple of 32, >= width, and = width iff width is a multiple
\* of 32
RoundsUp(width, padded) ==
    /\ UMod(padded, WordBits) = 0
    /\ UGe(padded, width)
    /\ padded = width <=> UMod(width, WordBits) = 0

\* C4: for every width a surface can have (SDL holds it as a C int, so it is
\* below 2^31) the sum width + 31 does not overflow and padded_width is a
\* multiple of 32, >= width, and = width iff width is a multiple of 32: so it
\* is in every dump made, and so it is computed for the largest widths a C
\* int can hold.
C4_PaddedWidthRoundsUp ==
    /\ pc = "exit" =>
          /\ hex_out # NoOutput
          /\ RoundsUp(atlas.width, hex_out.padded_width)
    /\ \A k \in 1..TopWidths :
          LET width == <<Half \div 2 - 1, Half - k>>
          IN  /\ FitsI32(width)
              /\ ~PaddedWidth(width).ovf
              /\ RoundsUp(width, PaddedWidth(width).val)

\* C4 witness: a dump was made of a surface whose width is above 32 and not a
\* multiple of 32, padded to two words
C4_Witness ==
    /\ hex_out # NoOutput
    /\ UGe(atlas.width, U32Of(WordBits + 1))
    /\ hex_out.padded_width = U32Of(2 * WordBits)

\* whether glyph i fails to render, has no metrics, or has a zero extent
SkippedGlyph(i) ==
    Skipped(RenderGlyph(font, font_size, get_cp437_char(i)),
            FindGlyphMetrics(font, font_size, get_cp437_char(i)))

\* whether the atlas pixel p lies in cell (i % 16, i / 16), the cells being
\* max_width x font_height pixels
InCell(p, i) ==
    LET cw == AsI32(max_width)
        ch == AsI32(font_height)
    IN  /\ cw > 0 /\ ch > 0
        /\ p[1] \div cw = i % GridSize
        /\ p[2] \div ch = i \div GridSize

\* C5 (as claimed): a glyph that is skipped is never blitted, and in the
\* atlas of a run that ended well every pixel of its cell has the background
\* colour.
C5_SkippedCellStaysBlank ==
    /\ placed.kind = "blit" => ~SkippedGlyph(placed.i)
    /\ exit = "ok" =>
          \A i \in 0..(NumGlyphs - 1) :
             SkippedGlyph(i) =>
                \A p \in DOMAIN atlas.px :
                   InCell(p, i) => PixelAt(atlas, p[1], p[2]) = White

\* C6 (as claimed): the destination rectangle of every blit lies inside the
\* glyph's cell: offsets >= 0, size (min(gw, cw), min(gh, ch)), and
\* offset + size <= cell size on both axes.  It is stated of the rectangles
\* whose coordinates were computed without overflow.
C6_DstRectInsideCell ==
    (placed.kind = "blit" /\ ~placed.ovf) =>
        LET cw == AsI32(max_width)
            ch == AsI32(font_height)
        IN  /\ placed.x_offset >= 0
            /\ placed.y_offset >= 0
            /\ placed.x = (placed.i % GridSize) * cw + placed.x_offset
            /\ placed.y = (placed.i \div GridSize) * ch + placed.y_offset
            /\ placed.w = Min(placed.gw, cw)
            /\ placed.h = Min(placed.gh, ch)
            /\ placed.x_offset + placed.w <= cw
            /\ placed.y_offset + placed.h <= ch

\* C7: a run with no output mode ends with the error before any font is
\* loaded; a run in which a load_font call fails ends with a load error; a
\* run whose full-set render is 0 pixels tall ends with the zero-height error;
\* and a run that ended with an error has emitted neither dump nor PNG.
C7_FatalEndsInError ==
    /\ (~args.output /\ ~args.hex_dump /\ pc # "start") =>
          exit = ErrNoMode /\ loads = 0
    /\ exit = ErrNoMode => ~args.output /\ ~args.hex_dump
    /\ (font.fail_at > 0 /\ loads >= font.fail_at) =>
          /\ loads = font.fail_at
          /\ exit = (IF loads = iteration THEN ErrLoad ELSE ErrLoadFinal)
    /\ (font.line_height = 0 /\ font.render_ok /\ font.fail_at = 0) =>
          /\ pc \notin {"atlas", "compose", "emit"}
          /\ pc = "exit" => exit \in {ErrNoMode, ErrInit, ErrZeroHeight}
    /\ exit \in Errors =>
          pc = "exit" /\ hex_out = NoOutput /\ png_out = NoOutput

\* C7 witness: the final load failed after a search of several trials
C7_Witness ==
    /\ exit = ErrLoadFinal
    /\ loads > 2

\* C8: a run that ended well gave the atlas to exactly one consumer, the
\* packer if --hex-dump was given (also together with --output), else the PNG
\* codec; never both; and a consumer ran only after all 256 glyphs were
\* handled.
C8_OneConsumerAfterCompose ==
    /\ ~(hex_out # NoOutput /\ png_out # NoOutput)
    /\ (hex_out # NoOutput \/ png_out # NoOutput) =>
          idx = NumGlyphs /\ pc = "exit"
    /\ exit = "ok" =>
          IF args.hex_dump
          THEN hex_out # NoOutput /\ png_out = NoOutput
          ELSE args.output /\ png_out # NoOutput /\ hex_out = NoOutput

\* C8 witness: both --hex-dump and --output were given and the run ended well
C8_Witness ==
    /\ exit = "ok"
    /\ args.hex_dump
    /\ args.output
    /\ hex_out # NoOutput

\* C9 (as claimed): a blitted glyph wider or taller than its cell, whose
\* destination rectangle is clamped to the cell, is named by a warning.
C9_OversizeIsWarned ==
    placed.kind = "blit" =>
        ((placed.gw > AsI32(max_width) \/ placed.gh > AsI32(font_height))
            => placed.warned)

\* the largest maxx among the glyphs the font has at `size`, 0 if it has none
MaxOfMaxx(f, size) ==
    LET xs == {FindGlyphMetrics(f, size, get_cp437_char(i)).maxx :
                  i \in {j \in 0..(NumGlyphs - 1) :
                            InFont(f, get_cp437_char(j))}}
    IN  IF xs = {} THEN 0 ELSE CHOOSE m \in xs : \A n \in xs : n <= m

\* C10 (as claimed): after every trial, max_width is the largest maxx of the
\* glyphs present in the font (0 if none is), negative maxx included.
C10_MaxWidthIsLargestMaxx ==
    (pc \in {"solve", "final"} /\ iteration >= 1) =>
        /\ FitsI32(max_width)
        /\ U32ToInt(max_width) = MaxOfMaxx(font, font_size)

====
